---- MODULE Spec2Model ----
(***************************************************************************)
(* Coach (src/Coach.py): the iteration controller of the self-play         *)
(* trainer.  One controller process runs learn(); generateSelfPlayAgents   *)
(* starts args.workers SelfPlayAgent processes that share with it the      *)
(* ready queue, one event and three tensors per slot, the file queue and   *)
(* two counters.  The controller's position is pc; each agent's position   *)
(* is agents[k].pc.  Steps are cut at every access to a shared object.     *)
(***************************************************************************)
EXTENDS Integers, Sequences, FiniteSets, TLC

\* ---------------------------------------------------------------- bounds
MaxWorkers == 2
MaxGames == 2
NumIters == 2
ArenaGames == 2
HistoryLen == 1

VARIABLES
    args,            \* self.args
    objects,         \* which mp.Queue, mp.Value and mp.Event objects self holds
    pc,              \* position of the controller inside learn()
    err,             \* <<exception, method>> that ended learn(), << >> while none
    iteration,       \* i of learn()
    i,               \* loop index local to the controller method that runs
    agents,          \* self.agents
    input_tensors,   \* self.input_tensors
    policy_tensors,  \* self.policy_tensors
    value_tensors,   \* self.value_tensors
    batch_ready,     \* self.batch_ready
    ready_queue,     \* self.ready_queue
    file_queue,      \* self.file_queue
    completed,       \* self.completed.value
    games_played,    \* self.games_played.value
    id,              \* id of processSelfPlayBatches, -1 while none
    policy,          \* self.policy
    value,           \* self.value
    data_tensor,     \* data_tensor of saveIterationSamples
    saved,           \* the files iteration-NNNN-data.pkl
    arrived,         \* records of file_queue that have reached its reader
    loaded,          \* datasets of train()
    nnet,            \* version of the weights held by self.nnet
    best,            \* version of the weights stored in iteration-best.pkl
    pwins, nwins, draws   \* result of arena.playGames

vars == <<args, objects, pc, err, iteration, i, agents, input_tensors,
          policy_tensors, value_tensors, batch_ready, ready_queue, file_queue, completed,
          games_played, id, policy, value, data_tensor, saved, arrived,
          loaded, nnet, best, pwins, nwins, draws>>

ctlLocals == <<id, policy, value>>
saveVars == <<data_tensor, saved, arrived>>
evalVars == <<loaded, nnet, best, pwins, nwins, draws>>
tensors == <<input_tensors, policy_tensors, value_tensors>>
counters == <<completed, games_played>>

Slots == 0 .. (args.workers - 1)

\* acceptance thresholds, as <<numerator, denominator>>: one that a win rate
\* can equal
Thresholds == {<<1, 2>>}

\* ------------------------------------------------------------- mp.Queue
QueuePut(q, x) == Append(q, x)
QueueHead(q) == Head(q)
\* get that leaves the item in the queue
QueuePeeked(q) == q

QueueRest(q) == Tail(q)
QueueSize(q) == Len(q)

\* --------------------------------------------------- network evaluator
\* nnet.process: a pure function of the input batch, two outputs.
NetPolicy(x) == 2 * x + 1
NetValue(x) == 2 * x + 2

\* ---------------------------------------------------------------- Init
Init ==
    /\ args \in [workers : 1 .. MaxWorkers,
                 gamesPerIteration : 1 .. MaxGames,
                 numIters : {NumIters},
                 numItersForTrainExamplesHistory : {HistoryLen},
                 arenaCompare : {ArenaGames},
                 updateThreshold : Thresholds]
    /\ objects = [ready_queue |-> 0, completed |-> 0, games_played |-> 0,
                  batch_ready |-> [s \in Slots |-> 0]]
    /\ pc = "learn"
    /\ err = << >>
    /\ iteration = 1
    /\ i = 0
    /\ agents = << >>
    /\ input_tensors = [s \in Slots |-> 0]
    /\ policy_tensors = [s \in Slots |-> 0]
    /\ value_tensors = [s \in Slots |-> 0]
    /\ batch_ready = [s \in Slots |-> FALSE]
    /\ ready_queue = << >>
    /\ file_queue = << >>
    /\ completed = 0
    /\ games_played = 0
    /\ id = -1
    /\ policy = 0
    /\ value = 0
    /\ data_tensor = << >>
    /\ saved = << >>
    /\ arrived = 0
    /\ loaded = << >>
    /\ nnet = 0
    /\ best = 0
    /\ pwins = 0
    /\ nwins = 0
    /\ draws = 0

\* --------------------------------------------------------------- learn
\* for i in range(1, numIters + 1): the loop test
LearnLoop ==
    /\ pc = "learn"
    /\ pc' = IF iteration <= args.numIters THEN "generate" ELSE "done"
    /\ UNCHANGED <<args, objects, err, iteration, i, agents, tensors, batch_ready,
                   ready_queue, file_queue, counters, ctlLocals, saveVars,
                   evalVars>>

\* --------------------------------------------- generateSelfPlayAgents
\* every agent bound to the buffers and event of slot 0
NewAgentSlotZero(s) ==
    [id |-> s, slot |-> 0, pc |-> "run",
     ready_queue |-> objects.ready_queue,
     batch_ready |-> objects.batch_ready[0],
     completed |-> objects.completed,
     games_played |-> objects.games_played]

\* the agent of index s, bound as the constructor call of lines 69-71 binds
\* it: it holds the queue, event and counters that self holds at that moment
NewAgent(s) ==
    [id |-> s, slot |-> s, pc |-> "run",
     ready_queue |-> objects.ready_queue,
     batch_ready |-> objects.batch_ready[s],
     completed |-> objects.completed,
     games_played |-> objects.games_played]

\* self holds a new object in each of the attributes named
Renewed(names) ==
    [n \in DOMAIN objects |->
        IF n = "batch_ready" \/ n \notin names THEN objects[n]
        ELSE objects[n] + 1]

\* self.ready_queue = mp.Queue()
GenerateBegin ==
    /\ pc = "generate"
    /\ ready_queue' = << >>
    /\ objects' = Renewed({"ready_queue"})
    /\ i' = 0
    /\ pc' = "generate_loop"
    /\ UNCHANGED <<args, err, iteration, agents, tensors, batch_ready,
                   file_queue, counters, ctlLocals, saveVars, evalVars>>

\* one pass of the loop: append agent i and start it
GenerateAgent ==
    /\ pc = "generate_loop"
    /\ i < args.workers
    /\ agents' = Append(agents, NewAgent(i))
    /\ i' = i + 1
    /\ UNCHANGED <<args, objects, pc, err, iteration, tensors, batch_ready,
                   ready_queue, file_queue, counters, ctlLocals, saveVars,
                   evalVars>>

\* the ready queue is created after the agents were started
GenerateEndRenewsQueue ==
    /\ pc = "generate_loop"
    /\ i >= args.workers
    /\ ready_queue' = << >>
    /\ objects' = Renewed({"ready_queue"})
    /\ i' = 0
    /\ pc' = "serve_begin"
    /\ UNCHANGED <<args, err, iteration, agents, tensors, batch_ready,
                   file_queue, counters, ctlLocals, saveVars, evalVars>>

GenerateEnd ==
    /\ pc = "generate_loop"
    /\ i >= args.workers
    /\ i' = 0
    /\ pc' = "serve_begin"
    /\ UNCHANGED <<args, objects, err, iteration, agents, tensors, batch_ready,
                   ready_queue, file_queue, counters, ctlLocals, saveVars,
                   evalVars>>

\* --------------------------------------------- processSelfPlayBatches
\* a new frame: id is unbound
ServeBegin ==
    /\ pc = "serve_begin"
    /\ id' = -1
    /\ pc' = "serve_test"
    /\ UNCHANGED <<args, objects, err, iteration, i, agents, tensors, batch_ready,
                   ready_queue, file_queue, counters, policy, value,
                   saveVars, evalVars>>

\* the loop left one agent early
ServingDoneEarly == completed >= args.workers - 1

\* the loop left as soon as any agent has completed
ServingDoneAny == completed >= 1

\* the test of the while loop, negated
ServingDone == completed = args.workers

ServeTest ==
    /\ pc = "serve_test"
    /\ pc' = IF ServingDone THEN "save" ELSE "serve_get"
    /\ UNCHANGED <<args, objects, err, iteration, i, agents, tensors, batch_ready,
                   ready_queue, file_queue, counters, ctlLocals, saveVars,
                   evalVars>>

\* id = self.ready_queue.get(timeout=1), an item being there
ServeGet ==
    /\ pc = "serve_get"
    /\ ready_queue # << >>
    /\ id' = QueueHead(ready_queue)
    /\ ready_queue' = QueueRest(ready_queue)
    /\ pc' = "serve_process"
    /\ UNCHANGED <<args, objects, err, iteration, i, agents, tensors, batch_ready,
                   file_queue, counters, policy, value, saveVars, evalVars>>

\* the get timing out, Empty not caught
ServeTimeoutRaises ==
    /\ pc = "serve_get"
    /\ ready_queue = << >>
    /\ pc' = "crashed"
    /\ err' = <<"Empty", "processSelfPlayBatches">>
    /\ UNCHANGED <<args, objects, iteration, i, agents, tensors, batch_ready,
                   ready_queue, file_queue, counters, ctlLocals, saveVars,
                   evalVars>>

\* the get timing out: except Empty: pass
ServeTimeout ==
    /\ pc = "serve_get"
    /\ ready_queue = << >>
    /\ pc' = "serve_progress"
    /\ UNCHANGED <<args, objects, err, iteration, i, agents, tensors, batch_ready,
                   ready_queue, file_queue, counters, ctlLocals, saveVars,
                   evalVars>>

\* the event set as soon as the forward pass is done, before the copies
ServeProcessSetsEvent ==
    /\ pc = "serve_process"
    /\ policy' = NetPolicy(input_tensors[id])
    /\ value' = NetValue(input_tensors[id])
    /\ batch_ready' = [batch_ready EXCEPT ![id] = TRUE]
    /\ pc' = "serve_copy_policy"
    /\ UNCHANGED <<args, objects, err, iteration, i, agents, tensors, ready_queue,
                   file_queue, counters, id, saveVars, evalVars>>

\* self.policy, self.value = self.nnet.process(self.input_tensors[id])
ServeProcess ==
    /\ pc = "serve_process"
    /\ policy' = NetPolicy(input_tensors[id])
    /\ value' = NetValue(input_tensors[id])
    /\ pc' = "serve_copy_policy"
    /\ UNCHANGED <<args, objects, err, iteration, i, agents, tensors, batch_ready,
                   ready_queue, file_queue, counters, id, saveVars,
                   evalVars>>

\* the outputs and the event go to slot 0 whatever the signal says
TargetSlotZero(s) == 0

\* the slot the outputs are copied to and whose event is set
TargetSlot(s) == s

\* the event set right after the policy copy, before the value copy
ServeCopyPolicySetsEvent ==
    /\ pc = "serve_copy_policy"
    /\ policy_tensors' = [policy_tensors EXCEPT ![id] = policy]
    /\ batch_ready' = [batch_ready EXCEPT ![id] = TRUE]
    /\ pc' = "serve_copy_value"
    /\ UNCHANGED <<args, objects, err, iteration, i, agents, input_tensors,
                   value_tensors, ready_queue, file_queue, counters,
                   ctlLocals, saveVars, evalVars>>

\* self.policy_tensors[id].copy_(self.policy)
ServeCopyPolicy ==
    /\ pc = "serve_copy_policy"
    /\ policy_tensors' = [policy_tensors EXCEPT ![TargetSlot(id)] = policy]
    /\ pc' = "serve_copy_value"
    /\ UNCHANGED <<args, objects, err, iteration, i, agents, input_tensors,
                   value_tensors, batch_ready, ready_queue, file_queue,
                   counters, ctlLocals, saveVars, evalVars>>

\* self.value_tensors[id].copy_(self.value)
ServeCopyValue ==
    /\ pc = "serve_copy_value"
    /\ value_tensors' = [value_tensors EXCEPT ![TargetSlot(id)] = value]
    /\ pc' = "serve_set"
    /\ UNCHANGED <<args, objects, err, iteration, i, agents, input_tensors,
                   policy_tensors, batch_ready, ready_queue, file_queue,
                   counters, ctlLocals, saveVars, evalVars>>

\* self.batch_ready[id].set()
ServeSet ==
    /\ pc = "serve_set"
    /\ batch_ready' = [batch_ready EXCEPT ![TargetSlot(id)] = TRUE]
    /\ pc' = "serve_progress"
    /\ UNCHANGED <<args, objects, err, iteration, i, agents, tensors, ready_queue,
                   file_queue, counters, ctlLocals, saveVars, evalVars>>

\* lines 89-95: the progress bar is brought up to games_played.value
ServeProgress ==
    /\ pc = "serve_progress"
    /\ pc' = "serve_test"
    /\ UNCHANGED <<args, objects, err, iteration, i, agents, tensors, batch_ready,
                   ready_queue, file_queue, counters, ctlLocals, saveVars,
                   evalVars>>

\* ------------------------------------------------------ SelfPlayAgent
\* The agent process, from its contract in the specification: while games
\* remain it writes a batch to its input buffer, puts its id on the ready
\* queue, waits for its event, clears it, reads the outputs and plays on;
\* a game that ends is counted and its record put on the file queue; at the
\* end the agent adds one to the completion counter.
Workers == 1 .. Len(agents)

AgentAt(k, p) == k \in Workers /\ agents[k].pc = p
AgentGoto(k, p) == agents' = [agents EXCEPT ![k].pc = p]

ctlVars == <<args, objects, pc, err, iteration, i, ctlLocals, saveVars, evalVars>>

\* the object agent k was given for the attribute named is the one self holds
Holds(k, name) ==
    agents[k][name] = IF name = "batch_ready"
                      THEN objects.batch_ready[agents[k].slot]
                      ELSE objects[name]

\* what agent k reads from its games counter: the value of self.games_played
\* if that is the object it holds, else a value the controller cannot see
GamesSeen(k) ==
    IF Holds(k, "games_played") THEN {games_played}
    ELSE 0 .. args.gamesPerIteration

\* the batch an agent assembles next differs from the one its buffer holds
NextBatch(x) == IF x = 1 THEN 2 ELSE 1

\* the loop test of run; with games remaining the agent writes the batch
\* to its input buffer
AgentGenerateBatch(k) ==
    /\ AgentAt(k, "run")
    /\ \E g \in GamesSeen(k) :
          IF g < args.gamesPerIteration
          THEN /\ input_tensors' = [input_tensors EXCEPT ![agents[k].slot] =
                                       NextBatch(input_tensors[agents[k].slot])]
               /\ AgentGoto(k, "signal")
          ELSE /\ AgentGoto(k, "complete")
               /\ UNCHANGED input_tensors
    /\ UNCHANGED <<ctlVars, policy_tensors, value_tensors, batch_ready,
                   ready_queue, file_queue, counters>>

\* ready_queue.put(id)
AgentSignal(k) ==
    /\ AgentAt(k, "signal")
    /\ ready_queue' = IF Holds(k, "ready_queue")
                      THEN QueuePut(ready_queue, agents[k].id)
                      ELSE ready_queue
    /\ AgentGoto(k, "wait")
    /\ UNCHANGED <<ctlVars, tensors, batch_ready, file_queue, counters>>

\* batch_ready.wait() returns
AgentWait(k) ==
    /\ AgentAt(k, "wait")
    /\ Holds(k, "batch_ready")
    /\ batch_ready[agents[k].slot]
    /\ AgentGoto(k, "results")
    /\ UNCHANGED <<ctlVars, tensors, batch_ready, ready_queue, file_queue,
                   counters>>

\* batch_ready.clear(), then the agent reads its two output buffers
AgentResults(k) ==
    /\ AgentAt(k, "results")
    /\ batch_ready' = IF Holds(k, "batch_ready")
                      THEN [batch_ready EXCEPT ![agents[k].slot] = FALSE]
                      ELSE batch_ready
    /\ AgentGoto(k, "play")
    /\ UNCHANGED <<ctlVars, tensors, ready_queue, file_queue, counters>>

\* the moves played end no game
AgentPlayMoves(k) ==
    /\ AgentAt(k, "play")
    /\ AgentGoto(k, "run")
    /\ UNCHANGED <<ctlVars, tensors, batch_ready, ready_queue, file_queue,
                   counters>>

\* the moves played end a game: it is counted and its record emitted
AgentGameEnds(k) ==
    /\ AgentAt(k, "play")
    /\ \E g \in GamesSeen(k) : g < args.gamesPerIteration
    /\ games_played' = IF Holds(k, "games_played") THEN games_played + 1
                       ELSE games_played
    /\ file_queue' = QueuePut(file_queue, iteration)
    /\ AgentGoto(k, "run")
    /\ UNCHANGED <<ctlVars, tensors, batch_ready, ready_queue, completed>>

AgentComplete(k) ==
    /\ AgentAt(k, "complete")
    /\ completed' = IF Holds(k, "completed") THEN completed + 1 ELSE completed
    /\ AgentGoto(k, "exited")
    /\ UNCHANGED <<ctlVars, tensors, batch_ready, ready_queue, file_queue,
                   games_played>>

AgentStep(k) ==
    \/ AgentGenerateBatch(k)
    \/ AgentSignal(k)
    \/ AgentWait(k)
    \/ AgentResults(k)
    \/ AgentPlayMoves(k)
    \/ AgentGameEnds(k)
    \/ AgentComplete(k)

\* ----------------------------------------------- saveIterationSamples
\* one row short
ZerosShort(k) == [r \in 1 .. k - 1 |-> 0]

\* torch.zeros([n, ...]): n rows of zeros
Zeros(k) == [r \in 1 .. k |-> 0]

\* tensor[:k]
Rows(tensor, k) == SubSeq(tensor, 1, IF k < Len(tensor) THEN k ELSE Len(tensor))

\* A record put on an mp.Queue is counted by qsize() at once and reaches the
\* reader when the feeder thread of the putting process has written it to
\* the pipe.  Nothing reads file_queue before saveIterationSamples, so how
\* many records have arrived is settled when it starts.

\* the three buffers are sized by file_queue.qsize(); i = 0
SaveAllocate ==
    /\ pc = "save"
    /\ data_tensor' = Zeros(QueueSize(file_queue))
    /\ \E a \in arrived .. QueueSize(file_queue) : arrived' = a
    /\ i' = 0
    /\ pc' = "save_loop"
    /\ UNCHANGED <<args, objects, err, iteration, agents, tensors, batch_ready,
                   ready_queue, file_queue, counters, ctlLocals, saved,
                   evalVars>>

\* the test of the while loop
Draining == i < QueueSize(file_queue)

\* a record in flight arrives while saveIterationSamples runs
Arrive ==
    /\ pc = "save_loop"
    /\ arrived < QueueSize(file_queue)
    /\ arrived' = arrived + 1
    /\ UNCHANGED <<args, objects, pc, err, iteration, i, agents, tensors, batch_ready,
                   ready_queue, file_queue, counters, ctlLocals, data_tensor,
                   saved, evalVars>>

\* one pass of the loop: get a record, store it in row i, i += 1
SaveRecord ==
    /\ pc = "save_loop"
    /\ Draining
    /\ arrived > 0
    /\ arrived' = arrived - 1
    /\ IF i < Len(data_tensor)
       THEN /\ data_tensor' = [data_tensor EXCEPT ![i + 1] = QueueHead(file_queue)]
            /\ i' = i + 1
            /\ UNCHANGED <<pc, err>>
       ELSE /\ pc' = "crashed"
            /\ err' = <<"IndexError", "saveIterationSamples">>
            /\ UNCHANGED <<data_tensor, i>>
    /\ file_queue' = QueueRest(file_queue)
    /\ UNCHANGED <<args, objects, iteration, agents, tensors, batch_ready, ready_queue,
                   counters, ctlLocals, saved, evalVars>>

\* the rows torch.save writes
Persisted(tensor) == Rows(tensor, 1)

\* the loop is over, or its get timed out (except Empty: pass): the three
\* torch.save calls
SavePersist ==
    /\ pc = "save_loop"
    /\ ~Draining \/ arrived = 0
    /\ saved' = (iteration :> Persisted(data_tensor)) @@ saved
    /\ data_tensor' = << >>
    /\ i' = 0
    /\ pc' = "kill"
    /\ UNCHANGED <<args, objects, err, iteration, agents, tensors, batch_ready,
                   ready_queue, file_queue, counters, ctlLocals, arrived,
                   evalVars>>

\* ---------------------------------------------------- killSelfPlayAgents
KillBegin ==
    /\ pc = "kill"
    /\ i' = 0
    /\ pc' = "kill_loop"
    /\ UNCHANGED <<args, objects, err, iteration, agents, tensors, batch_ready,
                   ready_queue, file_queue, counters, ctlLocals, saveVars,
                   evalVars>>

\* one pass of the loop: agents[i].join() returns once the agent has
\* exited, then batch_ready[i] = mp.Event(); a process that has exited has
\* flushed the records it put
KillJoin ==
    /\ pc = "kill_loop"
    /\ i < args.workers
    /\ agents[i + 1].pc = "exited"
    /\ batch_ready' = [batch_ready EXCEPT ![i] = FALSE]
    /\ objects' = [objects EXCEPT !.batch_ready[i] = @ + 1]
    /\ arrived' = QueueSize(file_queue)
    /\ i' = i + 1
    /\ UNCHANGED <<args, pc, err, iteration, agents, tensors, ready_queue,
                   file_queue, counters, ctlLocals, data_tensor, saved,
                   evalVars>>

\* the loop over, games_played is not renewed
KillEndKeepsGamesPlayed ==
    /\ pc = "kill_loop"
    /\ i >= args.workers
    /\ agents' = << >>
    /\ ready_queue' = << >>
    /\ objects' = Renewed({"ready_queue", "completed"})
    /\ completed' = 0
    /\ i' = 0
    /\ pc' = "train"
    /\ UNCHANGED <<args, err, iteration, tensors, batch_ready, file_queue,
                   games_played, ctlLocals, saveVars, evalVars>>

\* the loop over, completed is not renewed
KillEndKeepsCompleted ==
    /\ pc = "kill_loop"
    /\ i >= args.workers
    /\ agents' = << >>
    /\ ready_queue' = << >>
    /\ objects' = Renewed({"ready_queue", "games_played"})
    /\ games_played' = 0
    /\ i' = 0
    /\ pc' = "train"
    /\ UNCHANGED <<args, err, iteration, tensors, batch_ready, file_queue,
                   completed, ctlLocals, saveVars, evalVars>>

\* after the loop: agents, ready_queue, completed, games_played are renewed
KillEnd ==
    /\ pc = "kill_loop"
    /\ i >= args.workers
    /\ agents' = << >>
    /\ ready_queue' = << >>
    /\ objects' = Renewed({"ready_queue", "completed", "games_played"})
    /\ completed' = 0
    /\ games_played' = 0
    /\ i' = 0
    /\ pc' = "train"
    /\ UNCHANGED <<args, err, iteration, tensors, batch_ready, file_queue,
                   ctlLocals, saveVars, evalVars>>

\* ------------------------------------------------------------------ train
Max(a, b) == IF a > b THEN a ELSE b

\* range(max(1, iteration - numItersForTrainExamplesHistory), iteration + 1)
TrainWindow(it) == Max(1, it - args.numItersForTrainExamplesHistory) .. it

Train ==
    /\ pc = "train"
    /\ loaded' = [k \in TrainWindow(iteration) |-> saved[k]]
    /\ nnet' = iteration
    /\ pc' = "random"
    /\ UNCHANGED <<args, objects, err, iteration, i, agents, tensors, batch_ready,
                   ready_queue, file_queue, counters, ctlLocals, saveVars,
                   best, pwins, nwins, draws>>

\* ------------------------------------------------------------- the arena
\* arena.playGames(arenaCompare): the games split into wins of the first
\* player, wins of the second and draws
Outcomes(games) ==
    {o \in (0 .. games) \X (0 .. games) \X (0 .. games) :
        o[1] + o[2] + o[3] = games}

PlayGames(from, to) ==
    /\ pc = from
    /\ \E o \in Outcomes(args.arenaCompare) :
         /\ pwins' = o[1]
         /\ nwins' = o[2]
         /\ draws' = o[3]
    /\ pc' = to
    /\ UNCHANGED <<args, objects, err, iteration, i, agents, tensors, batch_ready,
                   ready_queue, file_queue, counters, ctlLocals, saveVars,
                   loaded, nnet, best>>

\* float(nwins) / (pwins + nwins) raises when the divisor is 0
DivisionFails(pw, nw) == pw + nw = 0

\* <= in place of <
RateNotAbove(pw, nw, thr) == nw * thr[2] <= thr[1] * (pw + nw)

\* float(nwins) / (pwins + nwins) < updateThreshold, the divisor not 0
RateBelow(pw, nw, thr) == nw * thr[2] < thr[1] * (pw + nw)

\* writer.add_scalar('win_rate/...', float(nwins) / (pwins + nwins), ...)
Report(from, to, method) ==
    /\ pc = from
    /\ IF DivisionFails(pwins, nwins)
       THEN pc' = "crashed" /\ err' = <<"ZeroDivisionError", method>>
       ELSE pc' = to /\ err' = err
    /\ pwins' = 0
    /\ nwins' = 0
    /\ draws' = 0
    /\ UNCHANGED <<args, objects, iteration, i, agents, tensors, batch_ready,
                   ready_queue, file_queue, counters, ctlLocals, saveVars,
                   loaded, nnet, best>>

CompareToRandomPlay == PlayGames("random", "random_report")
CompareToRandom == Report("random_report", "greedy", "compareToRandom")
CompareToGreedyPlay == PlayGames("greedy", "greedy_report")
CompareToGreedy == Report("greedy_report", "best", "compareToGreedy")
CompareToBestPlay == PlayGames("best", "best_report")

\* the condition of line 162
AcceptNewBest(pw, nw, thr) == ~(pw + nw > 0 /\ RateBelow(pw, nw, thr))

\* lines 161-164, then the next pass of the loop of learn
CompareToBest ==
    /\ pc = "best_report"
    /\ IF DivisionFails(pwins, nwins)
       THEN /\ pc' = "crashed"
            /\ err' = <<"ZeroDivisionError", "compareToBest">>
            /\ UNCHANGED <<best, iteration>>
       ELSE /\ best' = IF AcceptNewBest(pwins, nwins, args.updateThreshold)
                       THEN nnet ELSE best
            /\ iteration' = iteration + 1
            /\ pc' = "learn"
            /\ err' = err
    /\ pwins' = 0
    /\ nwins' = 0
    /\ draws' = 0
    /\ UNCHANGED <<args, objects, i, agents, tensors, batch_ready, ready_queue,
                   file_queue, counters, ctlLocals, saveVars, loaded, nnet>>

\* ------------------------------------------------------------------- Next
Controller ==
    \/ LearnLoop
    \/ GenerateBegin
    \/ GenerateAgent
    \/ GenerateEnd
    \/ ServeBegin
    \/ ServeTest
    \/ ServeGet
    \/ ServeTimeout
    \/ ServeProcess
    \/ ServeCopyPolicy
    \/ ServeCopyValue
    \/ ServeSet
    \/ ServeProgress
    \/ SaveAllocate
    \/ Arrive
    \/ SaveRecord
    \/ SavePersist
    \/ KillBegin
    \/ KillJoin
    \/ KillEnd
    \/ Train
    \/ CompareToRandomPlay
    \/ CompareToRandom
    \/ CompareToGreedyPlay
    \/ CompareToGreedy
    \/ CompareToBestPlay
    \/ CompareToBest

Next == Controller \/ \E k \in 1 .. MaxWorkers : AgentStep(k)

Spec == Init /\ [][Next]_vars

\* the controller is a running process none of whose steps blocks for good:
\* the get of the serving loop times out, a join returns once its agent has
\* exited
FairSpec == Spec /\ WF_vars(Controller)

\* ============================================================ properties
Servicing ==
    pc \in {"serve_process", "serve_copy_policy", "serve_copy_value", "serve_set"}

InQueue(s) == \E j \in 1 .. Len(ready_queue) : ready_queue[j] = s

\* the signals for slot s that are queued or being serviced
Outstanding(s) ==
    Cardinality({j \in 1 .. Len(ready_queue) : ready_queue[j] = s})
        + (IF Servicing /\ id = s THEN 1 ELSE 0)

Waiting(k) == agents[k].pc = "wait" /\ ~batch_ready[agents[k].slot]

\* ------------------------------------------------------------------- C1
C1_Pending == Servicing => ~batch_ready[id]

C1_NoMissedWakeup ==
    \A k \in Workers :
        Waiting(k) => InQueue(agents[k].id) \/ (Servicing /\ id = agents[k].id)

C1_Step ==
    /\ \A s \in Slots :
         (~batch_ready[s] /\ batch_ready'[s])
             => (pc = "serve_set" /\ id = s /\ pc' = "serve_progress")
    /\ (pc = "serve_set" /\ pc' # pc) => (~batch_ready[id] /\ batch_ready'[id])
    /\ (pc = "serve_get" /\ pc' = "serve_process") => ~batch_ready[id']

\* C1: every signal the serving loop dequeues for slot S finds batch_ready[S]
\* pending and is answered by exactly one set of batch_ready[S], made before
\* the loop dequeues again; an event is set only by the pass that dequeued
\* its signal, and an agent that waits always has its signal queued or in
\* service.
C1_ServedExactlyOnce ==
    [](C1_Pending /\ C1_NoMissedWakeup) /\ [][C1_Step]_vars

\* slot id has been answered for its second or a later batch
C1_Witness ==
    pc = "serve_progress" /\ id \in Slots /\ batch_ready[id]
        /\ input_tensors[id] = 2

\* ------------------------------------------------------------------- C2
\* C2: from the end of the serving loop until the agents are joined the
\* ready queue is empty and every agent has exited (none waits on its
\* event), so each join returns.
C2_DrainedBeforeJoin ==
    pc \in {"save", "save_loop", "kill", "kill_loop"}
        => /\ ready_queue = << >>
           /\ Len(agents) = args.workers
           /\ \A k \in Workers : agents[k].pc = "exited"

\* the second of two agents is about to be joined after games were played
C2_Witness ==
    pc = "kill_loop" /\ i = 1 /\ args.workers = 2
        /\ games_played = args.gamesPerIteration
        /\ \A s \in Slots : policy_tensors[s] # 0

\* ------------------------------------------------------------------- C3
\* C3: the dataset saved for iteration I holds as many records as the
\* agents put on the file queue during iteration I (one per game counted).
C3_PersistedAllEnqueued ==
    pc \in {"kill", "kill_loop"}
        => iteration \in DOMAIN saved /\ Len(saved[iteration]) = games_played

\* ------------------------------------------------------------------- C4
\* C4: when the loop of saveIterationSamples ends it has taken as many
\* records as the queue held when the buffers were sized, and the queue is
\* empty.
C4_DrainsAll ==
    (pc = "save_loop" /\ ~Draining)
        => i = Len(data_tensor) /\ file_queue = << >>

\* ------------------------------------------------------------------- C5
C5_Bound ==
    \A k \in Workers :
        /\ agents[k].slot = agents[k].id
        /\ \A j \in Workers : agents[j].slot = agents[k].slot => j = k

C5_Step ==
    /\ \A s \in Slots :
         (\/ policy_tensors'[s] # policy_tensors[s]
          \/ value_tensors'[s] # value_tensors[s]
          \/ (~batch_ready[s] /\ batch_ready'[s]))
             => (Servicing /\ id = s)
    /\ (pc = "serve_get" /\ pc' = "serve_process")
           => (ready_queue # << >> /\ id' = Head(ready_queue))
    /\ Servicing => id' = id

\* C5: an output buffer is written and an event set only for the slot whose
\* id the serving loop has just dequeued, and the agents are bound one to one
\* to the slots.
C5_RoutedBySlotId == []C5_Bound /\ [][C5_Step]_vars

\* slot 1 has been answered while slot 0 has not been touched
C5_Witness ==
    pc = "serve_progress" /\ id = 1 /\ batch_ready[1]
        /\ policy_tensors[1] # 0 /\ policy_tensors[0] = 0

\* ------------------------------------------------------------------- C6
C6_Step ==
    \A k \in Workers :
        (agents[k].pc = "signal" /\ Len(agents') >= k /\ agents'[k].pc = "wait")
            => (~batch_ready[agents[k].slot] /\ Outstanding(agents[k].id) = 0)

\* C6: at most one signal per slot is queued or in service, and an agent puts
\* its signal only while its event is pending and no signal of its is left.
C6_OneOutstanding ==
    [](\A s \in Slots : Outstanding(s) <= 1) /\ [][C6_Step]_vars

\* both slots have a signal outstanding, one of them for a second batch
C6_Witness ==
    /\ args.workers = 2
    /\ Outstanding(0) = 1
    /\ Outstanding(1) = 1
    /\ input_tensors[0] = 2

\* ------------------------------------------------------------------- C7
C7_Exclusive ==
    \A s \in Slots :
        (Servicing /\ id = s)
            => /\ \E k \in Workers : agents[k].slot = s
               /\ \A k \in Workers : agents[k].slot = s => Waiting(k)

C7_Step ==
    \A s \in Slots :
        /\ (InQueue(s) \/ (Servicing /\ id = s))
               => input_tensors'[s] = input_tensors[s]
        /\ (policy_tensors'[s] # policy_tensors[s]
               \/ value_tensors'[s] # value_tensors[s])
               => (Servicing /\ id = s /\ InQueue(s) = FALSE)

\* C7: while the serving loop works on slot N the agent of slot N is blocked
\* on its pending event; the input buffer of N does not change between the
\* signal and the set, and the output buffers of N change only in between.
C7_NoConcurrentAccess == []C7_Exclusive /\ [][C7_Step]_vars

\* the loop copies into slot 1 while the agent of slot 0 is at its buffers
C7_Witness ==
    /\ pc = "serve_copy_value"
    /\ id = 1
    /\ Len(agents) = 2
    /\ agents[1].pc = "results"

\* ------------------------------------------------------------------- C8
\* C8: when the serving loop is left, completed = workers and
\* games_played = gamesPerIteration.
C8_CountersAtEnd ==
    pc = "save"
        => completed = args.workers /\ games_played = args.gamesPerIteration

C8_Witness ==
    pc = "save" /\ args.workers = 2 /\ args.gamesPerIteration = 2
        /\ iteration = 2

\* ------------------------------------------------------------------- C9
Decisive == pwins + nwins

\* C9 as stated: iteration-best is overwritten exactly when the win rate
\* nwins / (pwins + nwins) is above updateThreshold.
C9_PromotedIffAbove ==
    [][pc = "best_report"
         => /\ (best' = nnet) <=>
                  (Decisive > 0 /\ nwins * args.updateThreshold[2]
                                     > args.updateThreshold[1] * Decisive)
            /\ (best' # nnet => best' = best)]_vars

\* C9 amended: iteration-best is overwritten exactly when there is a decisive
\* game and the win rate is not below updateThreshold; otherwise it is left
\* as it was.
C9_PromotedIffNotBelow ==
    [][pc = "best_report"
         => /\ (best' = nnet) <=>
                  (Decisive > 0 /\ nwins * args.updateThreshold[2]
                                     >= args.updateThreshold[1] * Decisive)
            /\ (best' # nnet => best' = best)]_vars

\* the model trained in iteration 1 was promoted, the one of iteration 2 not
C9_Witness == pc = "learn" /\ iteration = 3 /\ best = 1 /\ nnet = 2

\* ------------------------------------------------------------------ C10
\* C10: a match against best without a decisive game ends compareToBest
\* without an error, iteration-best unchanged, and learn goes on.
C10_DrawsNotPromoted ==
    [][(pc = "best_report" /\ Decisive = 0)
         => (pc' = "learn" /\ err' = << >> /\ best' = best)]_vars

\* ------------------------------------------------------------------ C11
\* C11: the datasets train(i) loads are those of the last K iterations,
\* max(1, i - K + 1) .. i with K = numItersForTrainExamplesHistory, never
\* more than K of them.
C11_WindowOfK ==
    pc = "random"
        => /\ DOMAIN loaded =
                  Max(1, iteration - args.numItersForTrainExamplesHistory + 1)
                      .. iteration
           /\ Cardinality(DOMAIN loaded) <= args.numItersForTrainExamplesHistory

\* ------------------------------------------------------------------ C12
\* the phases of one pass of learn, in their order
Phase ==
    CASE pc = "learn" -> 0
      [] pc \in {"generate", "generate_loop"} -> 1
      [] pc \in {"serve_begin", "serve_test", "serve_get", "serve_progress"}
             \/ Servicing -> 2
      [] pc \in {"save", "save_loop"} -> 3
      [] pc \in {"kill", "kill_loop"} -> 4
      [] pc = "train" -> 5
      [] pc \in {"random", "random_report", "greedy", "greedy_report",
                 "best", "best_report"} -> 6
      [] pc = "done" -> 7
      [] OTHER -> 8

\* spawn, serve, (signals drained), persist, tear down, train, evaluate, and
\* back to the loop test; the loop is left after numIters passes
C12_Order ==
    /\ Phase' # Phase =>
         \/ Phase \in 0 .. 5 /\ Phase' = Phase + 1
         \/ Phase = 6 /\ Phase' = 0 /\ iteration' = iteration + 1
         \/ Phase = 0 /\ Phase' = 7 /\ iteration = args.numIters + 1
         \/ Phase' = 8
    /\ (Phase = 2 /\ Phase' = 3) =>
         (ready_queue = << >> /\ \A k \in Workers : ~Waiting(k))
    /\ (Phase = 3 /\ Phase' = 4) => iteration \in DOMAIN saved'
    /\ (Phase = 0 /\ Phase' = 1) => iteration <= args.numIters

\* C12: every pass of learn goes through the phases in their order, the
\* samples of the pass saved before the agents are joined and before train
\* reads them, and learn makes numIters passes and ends: no pass is cut
\* short.
C12_PhasesInOrder == [][C12_Order /\ pc' # "crashed"]_vars

\* ------------------------------------------------------------------ C13
\* C13: when killSelfPlayAgents has returned, the events, the counters, the
\* ready queue and the agent list are as __init__ left them, and the
\* counters are 0 while the agents are spawned.
C13_ResetAsFresh ==
    /\ pc = "train" =>
         /\ batch_ready = [s \in Slots |-> FALSE]
         /\ completed = 0
         /\ games_played = 0
         /\ ready_queue = << >>
         /\ agents = << >>
    /\ pc \in {"generate", "generate_loop"} =>
         (completed = 0 /\ games_played = 0)

\* the agents of the second pass are spawned, the buffers holding the
\* batches of the first
C13_Witness ==
    /\ pc = "generate_loop"
    /\ iteration = 2
    /\ args.workers = 2
    /\ Len(agents) = 1
    /\ \A s \in Slots : policy_tensors[s] # 0

\* ------------------------------------------------------------------ C14
\* C14: while batch_ready[S] is set, and when the agent of S has woken to
\* read its outputs, both output buffers of S hold the evaluator's result
\* for the batch that is in the input buffer of S.
C14_OutputsMatchInput ==
    /\ \A s \in Slots :
         batch_ready[s] =>
             /\ policy_tensors[s] = 2 * input_tensors[s] + 1
             /\ value_tensors[s] = 2 * input_tensors[s] + 2
    /\ \A k \in Workers :
         agents[k].pc = "results" =>
             /\ policy_tensors[agents[k].slot]
                    = 2 * input_tensors[agents[k].slot] + 1
             /\ value_tensors[agents[k].slot]
                    = 2 * input_tensors[agents[k].slot] + 2

\* an agent has woken on the answer to its second batch
C14_Witness ==
    \E k \in Workers :
        /\ agents[k].pc = "results"
        /\ input_tensors[agents[k].slot] = 2
        /\ policy_tensors[agents[k].slot] = 5

\* ------------------------------------------------------------------ C16
\* C16: a get of the serving loop that times out leads to the progress
\* report and from there to the loop test, and neither step changes a
\* buffer, an event, a counter, a queue or the outputs of the evaluator.
C16_Step ==
    /\ (pc = "serve_get" /\ ready_queue = << >> /\ pc' # pc) =>
         /\ pc' = "serve_progress"
         /\ UNCHANGED <<err, tensors, batch_ready, counters, ready_queue,
                        file_queue, ctlLocals, agents>>
    /\ (pc = "serve_progress" /\ pc' # pc) =>
         /\ pc' = "serve_test"
         /\ UNCHANGED <<err, tensors, batch_ready, counters, ready_queue,
                        file_queue, ctlLocals, agents>>

C16_TimeoutIsIdle == [][C16_Step]_vars

\* the first get of a pass timed out: no id is bound yet
C16_Witness == pc = "serve_progress" /\ id = -1 /\ Len(agents) = 2

\* ------------------------------------------------------------------ C17
\* C17: compareToRandom and compareToGreedy never end learn: whatever the
\* match result they return.
C17_BaselinesNeverAbort ==
    err = << >> \/ err[2] \notin {"compareToRandom", "compareToGreedy"}

\* ------------------------------------------------------------------ C18
\* C18: the file queue is empty when the agents of a pass are spawned, and
\* the dataset saved for a pass holds records of that pass only.
C18_NoRecordCrosses ==
    /\ pc = "generate" => file_queue = << >>
    /\ \A it \in DOMAIN saved :
         \A r \in 1 .. Len(saved[it]) : saved[it][r] = it

\* ------------------------------------------------------------------ C15
C15_Exited == {k \in Workers : agents[k].pc = "exited"}

C15_Bounded ==
    /\ completed <= args.workers
    /\ completed = Cardinality(C15_Exited)

C15_Step == completed' >= completed \/ (pc = "kill_loop" /\ pc' = "train")

\* C15: completed counts the agents that have exited, never goes down
\* before killSelfPlayAgents renews it and never exceeds workers; once it
\* equals workers the serving loop reaches its test and is left.
C15_LoopExits ==
    /\ []C15_Bounded
    /\ [][C15_Step]_vars
    /\ ((Phase = 2 /\ completed = args.workers) ~> pc = "save")

\* the last agent exits while the loop is in the middle of a pass
C15_Witness ==
    /\ pc = "serve_progress"
    /\ args.workers = 2
    /\ completed = 2
    /\ iteration = 2

\* ------------------------------------------------------------------ C19
\* C19: whenever the loop of saveIterationSamples goes on to get a record,
\* the row i it will write lies inside the buffer sized at allocation, also
\* when records arrive after the allocation; no write falls outside.
C19_RowInsideBuffer ==
    /\ (pc = "save_loop" /\ i < Len(file_queue)) => i < Len(data_tensor)
    /\ pc = "save_loop" => Len(data_tensor) = Len(file_queue) + i
    /\ (err # << >> => err[1] # "IndexError")

\* one record is stored, the next row is due, and no record is at hand: the
\* others are still in flight after the allocation
C19_Witness ==
    /\ pc = "save_loop"
    /\ i = 1
    /\ i < Len(file_queue)
    /\ arrived = 0
    /\ data_tensor[1] # 0

\* ------------------------------------------------------------------ C20
Alive(k) == agents[k].pc # "exited"

\* every object a live agent holds is the one the controller holds
C20_Current ==
    \A k \in Workers :
        Alive(k) => /\ Holds(k, "ready_queue")
                    /\ Holds(k, "batch_ready")
                    /\ Holds(k, "completed")
                    /\ Holds(k, "games_played")

\* the event of a slot is replaced only when the agent of that slot has
\* exited; the ready queue and the counters only when no agent is alive
C20_Step ==
    /\ \A k \in Workers :
          objects'.batch_ready[agents[k].slot] #
              objects.batch_ready[agents[k].slot] => ~Alive(k)
    /\ (\E n \in {"ready_queue", "completed", "games_played"} :
            objects'[n] # objects[n]) => \A k \in Workers : ~Alive(k)

\* C20: while an agent is alive, the ready queue, the event and the two
\* counters it was started with are the objects the controller holds; the
\* controller replaces an event only after the join of its agent and the
\* queue and counters only while no agent is alive.
C20_LiveAgentsHoldCurrentObjects == []C20_Current /\ [][C20_Step]_vars

\* in the second iteration, the event and the counters replaced by the kill
\* of the first, a live agent is served on the event it was started with
C20_Witness ==
    /\ iteration = 2
    /\ pc = "serve_set"
    /\ \E k \in Workers : Alive(k) /\ agents[k].slot = id
    /\ objects.batch_ready[id] = 1
    /\ objects.completed = 1

====
